---- MODULE Spec2Model ----
(***************************************************************************)
(* Model of the relevance-ranking core of scottopell/reader:               *)
(*   - the Elo rating functions            (reader/scoring/elo.py)         *)
(*   - opponent selection and the scoring run                              *)
(*                                         (reader/scoring/elo_scoring.py) *)
(*   - the pairwise comparator             (reader/scoring/pairwise.py)    *)
(*   - the generation / feedback / article / comparison repositories       *)
(*                                         (reader/db/repository.py)       *)
(*   - default seeding                     (reader/scoring/prompts.py)     *)
(*   - the refinement run and its worker   (reader/refiner/batch.py,       *)
(*                                          reader/web/app.py)             *)
(*                                                                         *)
(* Every repository method opens its own connection and commits once, so   *)
(* one repository call is one atomic step; a run is a sequence of such     *)
(* steps that other processes sharing the database file may interleave.    *)
(*                                                                         *)
(* Ratings are fixed-point integers: one unit is 1/Scale of a rating       *)
(* point.  Timestamps are integer ticks, one tick being the 24 hour        *)
(* look-back window of the refinement run.                                 *)
(***************************************************************************)
EXTENDS Integers, Sequences, FiniteSets, TLC

VARIABLES articles, comparisons, generations, feedback, now,
          scorer, refiner, audit, selection

vars == <<articles, comparisons, generations, feedback, now,
          scorer, refiner, audit, selection>>

(***************************************************************************)
(* Bounds of the model.                                                    *)
(***************************************************************************)
NumArticles == 2
NumScorers == 2
NumWorkers == 2
MaxFeedback == 2
MaxGenerations == 3
MaxTime == 2
MaxStarts == 2
MaxJudgeCalls == 3
MaxComparisons == 8
SelectArticles == 3
MaxCount == 3

ArticleIds == 1..NumArticles
Scorers == 1..NumScorers
Workers == 1..NumWorkers

\* SQL NULL / Python None.
NULL == -1

(***************************************************************************)
(* Program constants.                                                      *)
(***************************************************************************)
Scale == 1000
DEFAULT_ELO_RATING == 1500 * Scale
DEFAULT_K_FACTOR == 32
COMPARISONS_FOR_CONFIDENCE == 7
\* timedelta(hours=24), in ticks
WINDOW == 1

DEFAULT_PROMPT == "default"
\* prompt texts the judge may answer with
Prompts == {"refined"}

Min(a, b) == IF a < b THEN a ELSE b
Max(a, b) == IF a > b THEN a ELSE b
Abs(x) == IF x < 0 THEN 0 - x ELSE x

\* sequences of length k over S without repetition (ORDER BY RANDOM() LIMIT k
\* over a result set S with k <= |S|)
SeqsNoRep(S, k) ==
    {s \in [1..k -> S] : \A i, j \in 1..k : i # j => s[i] # s[j]}

(***************************************************************************)
(* PromptGenerationRepository.  A generation's id is its index in the      *)
(* table (AUTOINCREMENT, rows are never deleted).  The fields consumed     *)
(* (the feedback ids whose number was passed as feedback_count) and        *)
(* created_active (the set_active argument) are history kept for the       *)
(* properties.                                                             *)
(***************************************************************************)
ActiveIds(gens) == {i \in DOMAIN gens : gens[i].is_active}

\* get_active: SELECT ... WHERE is_active = 1, fetchone()
get_active(gens) ==
    IF ActiveIds(gens) = {} THEN NULL
    ELSE CHOOSE i \in ActiveIds(gens) : \A j \in ActiveIds(gens) : i <= j

\* create without the "deactivate all" statement
generation_create_keep_active(gens, prompt_text, consumed, set_active) ==
    Append(gens,
           [prompt_text |-> prompt_text,
            feedback_count |-> Cardinality(consumed),
            is_active |-> set_active,
            consumed |-> consumed,
            created_active |-> set_active])

\* create with the "deactivate all" statement after the INSERT
generation_create_insert_first(gens, prompt_text, consumed, set_active) ==
    LET inserted == Append(gens,
                       [prompt_text |-> prompt_text,
                        feedback_count |-> Cardinality(consumed),
                        is_active |-> set_active,
                        consumed |-> consumed,
                        created_active |-> set_active])
    IN IF set_active
       THEN [i \in DOMAIN inserted |-> [inserted[i] EXCEPT !.is_active = FALSE]]
       ELSE inserted

\* create: one transaction = optional "UPDATE ... SET is_active = 0" + INSERT
generation_create(gens, prompt_text, consumed, set_active) ==
    Append(IF set_active
              THEN [i \in DOMAIN gens |-> [gens[i] EXCEPT !.is_active = FALSE]]
              ELSE gens,
           [prompt_text |-> prompt_text,
            feedback_count |-> Cardinality(consumed),
            is_active |-> set_active,
            consumed |-> consumed,
            created_active |-> set_active])

(***************************************************************************)
(* HeuristicFeedbackRepository.  A feedback item's id is its index.        *)
(***************************************************************************)
feedback_create(fb, t) == Append(fb, [created_at |-> t, generation_id |-> NULL])

\* the query without "generation_id IS NULL"
get_unprocessed_since_any(fb, since) ==
    {f \in DOMAIN fb : fb[f].created_at >= since}

\* get_unprocessed_since: generation_id IS NULL AND created_at >= since
get_unprocessed_since(fb, since) ==
    {f \in DOMAIN fb : fb[f].generation_id = NULL /\ fb[f].created_at >= since}

\* a link_to_generation that updates no row
link_to_generation_none(fb, ids, gid) == fb

\* a link_to_generation that updates every row not linked yet
link_to_generation_unlinked(fb, ids, gid) ==
    IF ids = {} THEN fb
    ELSE [f \in DOMAIN fb |->
            IF fb[f].generation_id = NULL
            THEN [fb[f] EXCEPT !.generation_id = gid] ELSE fb[f]]

\* link_to_generation: UPDATE ... SET generation_id = ? WHERE id IN (...)
link_to_generation(fb, ids, gid) ==
    IF ids = {} THEN fb
    ELSE [f \in DOMAIN fb |->
            IF f \in ids THEN [fb[f] EXCEPT !.generation_id = gid] ELSE fb[f]]

(***************************************************************************)
(* The judge's answer to a refinement request, and its parsing.            *)
(***************************************************************************)
\* A response is: a transport failure (httpx.HTTPError, or another
\* exception), or a text that holds no "{...}", holds one that is not JSON,
\* holds JSON without "new_prompt", or holds JSON with it.
RefineResponses ==
    {r \in [transport : {"ok", "http_error", "other_error"},
            has_json : BOOLEAN, valid_json : BOOLEAN,
            has_new_prompt : BOOLEAN, new_prompt : Prompts] :
        /\ r.transport # "ok" => ~r.has_json
        /\ ~r.has_json => ~r.valid_json
        /\ ~r.valid_json => ~r.has_new_prompt}

\* parsing that reads the field with a default instead of requiring it
parse_refinement_response_lenient(r) ==
    IF ~r.has_json THEN "RefinementError"
    ELSE IF ~r.valid_json THEN "RefinementError"
    ELSE r.new_prompt

\* _parse_refinement_response: "RefinementError" or the new prompt text
parse_refinement_response(r) ==
    IF ~r.has_json THEN "RefinementError"
    ELSE IF ~r.valid_json THEN "RefinementError"
    ELSE IF ~r.has_new_prompt THEN "RefinementError"
    ELSE r.new_prompt

(***************************************************************************)
(* RatingModel (reader/scoring/elo.py) in fixed point.  A score is in      *)
(* units of 1/Scale, so k * (actual - expected) is in rating units.  The   *)
(* logistic curve 1 / (1 + 10^(d/400)) is tabulated at multiples of        *)
(* TableStep rating points and a difference is rounded to the nearest      *)
(* tabulated point; beyond the table's end the last entry is used.         *)
(* math.pow(10.0, x) raises OverflowError once 10^x exceeds the largest    *)
(* double, that is for x > 308.2547: a difference rating_b - rating_a of   *)
(* PowOverflowGap (in units of 1/Scale rating points) or more.             *)
(***************************************************************************)
PowOverflowGap == 123301887
OverflowError == -1
ExpectedTable ==
    <<500, 477, 454, 431, 409, 387, 365, 344, 324, 304, 285, 266, 249, 232,
      216, 201, 186, 173, 160, 148, 137, 126, 116, 107, 99, 91, 84, 77, 71,
      65, 59, 54, 50, 46, 42, 38, 35, 32, 29, 27, 25, 22, 20, 19, 17, 16,
      14, 13, 12, 11, 10>>
TableStep == 16 * Scale

calculate_expected_score(rating_a, rating_b) ==
    LET d == rating_b - rating_a
        k == Min(Len(ExpectedTable) - 1,
                 (Abs(d) + (TableStep \div 2)) \div TableStep)
        e == ExpectedTable[k + 1]
    IN IF d >= PowOverflowGap THEN OverflowError
       ELSE IF d >= 0 THEN e ELSE Scale - e

Outcomes == {"a_wins", "b_wins", "tie"}

\* calculate_elo_update: <<new_rating_a, new_rating_b>>, or the exception of
\* calculate_expected_score, which it does not catch
calculate_elo_update(rating_a, rating_b, outcome, k_factor) ==
    LET expected_a == calculate_expected_score(rating_a, rating_b)
        expected_b == Scale - expected_a
        actual_a == IF outcome = "a_wins" THEN Scale
                    ELSE IF outcome = "b_wins" THEN 0 ELSE Scale \div 2
        actual_b == IF outcome = "a_wins" THEN 0
                    ELSE IF outcome = "b_wins" THEN Scale ELSE Scale \div 2
    IN IF expected_a = OverflowError THEN <<"OverflowError">>
       ELSE <<rating_a + k_factor * (actual_a - expected_a),
              rating_b + k_factor * (actual_b - expected_b)>>

create_elo_update(article_a_id, article_b_id, rating_a, rating_b, outcome, k_factor) ==
    LET new == calculate_elo_update(rating_a, rating_b, outcome, k_factor)
    IN [article_a_id |-> article_a_id, article_b_id |-> article_b_id,
        article_a_elo_before |-> rating_a, article_a_elo_after |-> new[1],
        article_b_elo_before |-> rating_b, article_b_elo_after |-> new[2],
        k_factor |-> k_factor, outcome |-> outcome]

\* a percentile that counts the ratings below only
calculate_percentile_below(rating, all_ratings) ==
    IF Len(all_ratings) = 0 THEN 50 * Scale
    ELSE LET count_below ==
                 Cardinality({i \in DOMAIN all_ratings : all_ratings[i] < rating})
             percentile == (count_below * 100 * Scale) \div Len(all_ratings)
         IN Min(100 * Scale, Max(0, percentile))

\* calculate_percentile, in units of 1/Scale percent
calculate_percentile(rating, all_ratings) ==
    IF Len(all_ratings) = 0 THEN 50 * Scale
    ELSE LET count_below ==
                 Cardinality({i \in DOMAIN all_ratings : all_ratings[i] < rating})
             count_equal ==
                 Cardinality({i \in DOMAIN all_ratings : all_ratings[i] = rating})
             percentile == ((2 * count_below + count_equal) * 100 * Scale)
                               \div (2 * Len(all_ratings))
         IN Min(100 * Scale, Max(0, percentile))

(***************************************************************************)
(* Comparator (reader/scoring/pairwise.py): the judge's answer and what    *)
(* compare_articles makes of it.                                           *)
(***************************************************************************)
\* A response is: a failed call, or a text that holds no "{...}", holds one
\* that is not JSON, or holds JSON whose "outcome" is one of the three
\* labels, something else, or absent, and whose "reasoning" is a string,
\* absent, or a value that is no string ("invalid").
CompareResponses ==
    {r \in [transport : {"ok", "error"}, has_json : BOOLEAN,
            valid_json : BOOLEAN,
            outcome : Outcomes \cup {"other", "missing"},
            reasoning : {"text", "missing", "invalid"}] :
        /\ r.transport # "ok" => ~r.has_json
        /\ ~r.has_json => ~r.valid_json
        /\ ~r.valid_json => r.outcome = "missing" /\ r.reasoning = "missing"}

\* _parse_comparison_response: the exception it raises, or the outcome.
\* PairwiseComparisonResponse(reasoning=...) validates the rationale as str.
parse_comparison_response(r) ==
    IF ~r.has_json THEN "ComparisonError"
    ELSE IF ~r.valid_json THEN "ComparisonError"
    ELSE IF r.reasoning = "invalid" THEN "ValidationError"
    ELSE IF r.outcome = "missing" THEN "tie"
    ELSE IF r.outcome \in Outcomes THEN r.outcome
    ELSE "tie"

\* only httpx.HTTPError is converted
compare_articles_http_only(r) ==
    IF r.transport # "ok" THEN "ComparisonError"
    ELSE parse_comparison_response(r)

\* compare_articles: every exception of the call is turned into ComparisonError
compare_articles(r) ==
    IF r.transport # "ok" THEN "ComparisonError"
    ELSE LET parsed == parse_comparison_response(r)
         IN IF parsed \in Outcomes THEN parsed ELSE "ComparisonError"

(***************************************************************************)
(* ArticleRepository and EloComparisonRepository.                          *)
(***************************************************************************)
\* _row_to_article: a NULL elo_rating is read as 1500.0
row_elo_rating(row) ==
    IF row.elo_rating = NULL THEN DEFAULT_ELO_RATING ELSE row.elo_rating

\* an UPDATE whose CASE tests the counter before the increment
update_elo_stale_count(arts, article_id, elo_rating) ==
    [arts EXCEPT ![article_id] =
        [@ EXCEPT !.elo_rating = elo_rating,
                  !.elo_comparisons = @ + 1,
                  !.elo_confidence = (arts[article_id].elo_comparisons >= 7)]]

\* update_elo with increment_comparisons=True
update_elo(arts, article_id, elo_rating) ==
    [arts EXCEPT ![article_id] =
        [@ EXCEPT !.elo_rating = elo_rating,
                  !.elo_comparisons = @ + 1,
                  !.elo_confidence =
                      (arts[article_id].elo_comparisons + 1 >= 7)]]

\* "x or DEFAULT_ELO_RATING": 0.0 is falsy
or_default(x) == IF x = 0 THEN DEFAULT_ELO_RATING ELSE x

(***************************************************************************)
(* OpponentSelector: the lists select_opponents can return.  An opponent   *)
(* is the row as read at selection time.                                   *)
(***************************************************************************)
Eligible(arts, exclude_id) ==
    {a \in DOMAIN arts : a # exclude_id /\ arts[a].elo_rating # NULL}

RandomRows(S, limit) == SeqsNoRep(S, Min(limit, Cardinality(S)))

\* a selection whose queries leave out "elo_rating IS NOT NULL"
select_opponents_unrated(arts, exclude_id, generation_id, count) ==
    LET all == DOMAIN arts \ {exclude_id}
        snapshot(ids) ==
            [n \in DOMAIN ids |->
                [id |-> ids[n], elo_rating |-> row_elo_rating(arts[ids[n]])]]
    IN {snapshot(rows) : rows \in RandomRows(all, count)}

\* a selection that always takes the branch without generation preference
select_opponents_any_generation(arts, exclude_id, generation_id, count) ==
    LET all == Eligible(arts, exclude_id)
        snapshot(ids) ==
            [n \in DOMAIN ids |->
                [id |-> ids[n], elo_rating |-> row_elo_rating(arts[ids[n]])]]
    IN {snapshot(rows) : rows \in RandomRows(all, count)}

select_opponents(arts, exclude_id, generation_id, count) ==
    LET all == Eligible(arts, exclude_id)
        current == {a \in all : arts[a].generation_id = generation_id}
        snapshot(ids) ==
            [n \in DOMAIN ids |->
                [id |-> ids[n], elo_rating |-> row_elo_rating(arts[ids[n]])]]
    IN IF generation_id # NULL /\ generation_id # 0
       THEN {snapshot(first \o more) :
                first \in RandomRows(current, count),
                more \in IF Cardinality(current) < count
                         THEN RandomRows(all, count - Cardinality(current))
                         ELSE {<<>>}}
       ELSE {snapshot(rows) : rows \in RandomRows(all, count)}

(***************************************************************************)
(* Initial state: migrated database holding the ingested articles, no      *)
(* comparison, no feedback; either no generation yet, or the seeded        *)
(* default generation under which some articles were scored.               *)
(***************************************************************************)
NoUpdate ==
    [article_a_id |-> NULL, article_b_id |-> NULL,
     article_a_elo_before |-> 0, article_a_elo_after |-> 0,
     article_b_elo_before |-> 0, article_b_elo_after |-> 0,
     k_factor |-> 0, outcome |-> "tie"]

NoResponse ==
    [transport |-> "none", has_json |-> FALSE, valid_json |-> FALSE,
     has_new_prompt |-> FALSE, new_prompt |-> ""]

IdleScorer ==
    [pc |-> "idle", article_id |-> NULL, elo_rating |-> NULL,
     start_elo |-> NULL, generation_id |-> NULL, opponents |-> <<>>, i |-> 0,
     upd |-> NoUpdate, b_persisted |-> 0, comparisons_completed |-> 0,
     errors |-> <<>>]

DeadWorker ==
    [pc |-> "dead", feedback_list |-> {}, current_gen |-> NULL,
     response |-> NoResponse, new_prompt |-> "", new_gen_id |-> NULL,
     starts |-> 0, fb_seen |-> 0, after |-> "none",
     outcome |-> "none", returned |-> NULL]

NewArticle(rating, gen) ==
    [elo_rating |-> rating, elo_comparisons |-> 0, elo_confidence |-> FALSE,
     generation_id |-> gen]

\* no call of select_opponents observed yet
NoSelection ==
    [exclude_id |-> NULL, generation_id |-> NULL, count |-> 0, result |-> <<>>]

InitProcesses ==
    /\ comparisons = <<>>
    /\ feedback = <<>>
    /\ now = 0
    /\ scorer = [s \in Scorers |-> IdleScorer]
    /\ refiner = [w \in Workers |-> DeadWorker]
    /\ audit = [failed_batch |-> {}, failed_at |-> 0, missed |-> {},
                prev |-> [outcome |-> "none", fb_seen |-> 0]]
    /\ selection = NoSelection

\* the generation store starts empty; articles are freshly ingested
InitGen ==
    /\ generations = <<>>
    /\ articles = [a \in ArticleIds |-> NewArticle(DEFAULT_ELO_RATING, NULL)]
    /\ InitProcesses

(***************************************************************************)
(* Environment: time passes, the user records feedback, and a caller of    *)
(* the repository creates a generation directly.                           *)
(***************************************************************************)
Tick ==
    /\ now < MaxTime
    /\ now' = now + 1
    /\ UNCHANGED <<articles, comparisons, generations, feedback, scorer,
                   refiner, audit, selection>>

\* HeuristicFeedbackRepository.create, called by the feedback route
CreateFeedback ==
    /\ Len(feedback) < MaxFeedback
    /\ feedback' = feedback_create(feedback, now)
    /\ UNCHANGED <<articles, comparisons, generations, now, scorer, refiner,
                   audit, selection>>

\* PromptGenerationRepository.create called directly
DirectCreate ==
    /\ Len(generations) < MaxGenerations
    /\ \E set_active \in BOOLEAN, text \in Prompts :
          generations' = generation_create(generations, text, {}, set_active)
    /\ UNCHANGED <<articles, comparisons, feedback, now, scorer, refiner,
                   audit, selection>>

(***************************************************************************)
(* The refinement worker (periodic_prompt_refinement) and one refinement   *)
(* run (run_daily_refinement), one step per repository call or judge call. *)
(***************************************************************************)
RefUnchanged == UNCHANGED <<articles, comparisons, now, scorer, selection>>

\* history: how the run that ended last ended, and how many feedback items
\* existed when it gathered
EndOfRun(a, outcome, fb_seen) ==
    [a EXCEPT !.prev = [outcome |-> outcome, fb_seen |-> fb_seen]]

\* lifespan(): asyncio.create_task(periodic_prompt_refinement())
WorkerStart(w) ==
    /\ refiner[w].pc = "dead"
    /\ refiner[w].starts < MaxStarts
    /\ refiner' = [refiner EXCEPT ![w].pc = "gather",
                                  ![w].starts = @ + 1]
    /\ UNCHANGED <<generations, feedback, audit>>
    /\ RefUnchanged

\* history: the outcome of the call this call directly follows, when no run
\* is in progress and no feedback was created since that call gathered
Preceding(w) ==
    IF /\ \A v \in Workers \ {w} : refiner[v].pc \in {"dead", "sleep"}
       /\ audit.prev.fb_seen = Len(feedback)
    THEN audit.prev.outcome
    ELSE "none"

\* since = now - 24h; feedback_list = get_unprocessed_since(since);
\* an empty list returns None
RefGather(w) ==
    /\ refiner[w].pc = "gather"
    /\ LET list == get_unprocessed_since(feedback, now - WINDOW)
       IN /\ refiner' = [refiner EXCEPT
                 ![w].feedback_list = list,
                 ![w].pc = IF list = {} THEN "sleep" ELSE "load_active",
                 ![w].outcome = IF list = {} THEN "no_work" ELSE "running",
                 ![w].fb_seen = Len(feedback),
                 ![w].after = Preceding(w),
                 ![w].returned = NULL]
          /\ LET a == IF audit.failed_batch # {}
                          /\ now >= audit.failed_at + WINDOW
                       THEN [audit EXCEPT
                               !.failed_batch = {}, !.failed_at = 0,
                               !.missed = @ \cup
                                   {f \in audit.failed_batch :
                                       /\ now = audit.failed_at + WINDOW
                                       /\ feedback[f].generation_id = NULL
                                       /\ f \notin list}]
                       ELSE audit
             IN audit' = IF list = {}
                         THEN EndOfRun(a, "no_work", Len(feedback))
                         ELSE a
    /\ UNCHANGED <<generations, feedback>>
    /\ RefUnchanged

\* current_gen = generation_repo.get_active(); None returns None
RefLoadActive(w) ==
    /\ refiner[w].pc = "load_active"
    /\ LET g == get_active(generations)
       IN /\ refiner' = [refiner EXCEPT
              ![w].current_gen = g,
              ![w].pc = IF g = NULL THEN "sleep" ELSE "judge",
              ![w].outcome = IF g = NULL THEN "no_active" ELSE "running"]
          /\ audit' = IF g = NULL
                      THEN EndOfRun(audit, "no_active", refiner[w].fb_seen)
                      ELSE audit
    /\ UNCHANGED <<generations, feedback>>
    /\ RefUnchanged

\* the judge call and _parse_refinement_response inside the try block:
\* httpx.HTTPError and RefinementError return None, any other exception
\* leaves run_daily_refinement and is caught by the worker loop
RefJudge(w) ==
    /\ refiner[w].pc = "judge"
    /\ \E r \in RefineResponses :
          LET parsed == parse_refinement_response(r)
              ok == r.transport = "ok" /\ parsed # "RefinementError"
          IN /\ refiner' = [refiner EXCEPT
                    ![w].pc = IF ok THEN "create" ELSE "sleep",
                    ![w].response = r,
                    ![w].new_prompt = IF ok THEN parsed ELSE @,
                    ![w].outcome = IF ok THEN "running"
                                   ELSE IF r.transport = "other_error"
                                        THEN "raised" ELSE "refine_failed"]
             /\ audit' = IF ok THEN audit
                         ELSE EndOfRun(
                                [audit EXCEPT
                                   !.failed_batch = refiner[w].feedback_list,
                                   !.failed_at = now],
                                IF r.transport = "other_error"
                                THEN "raised" ELSE "refine_failed",
                                refiner[w].fb_seen)
    /\ UNCHANGED <<generations, feedback>>
    /\ RefUnchanged

\* new_gen_id = generation_repo.create(..., feedback_count=len(feedback_list),
\*                                     set_active=True)
RefCreate(w) ==
    /\ refiner[w].pc = "create"
    /\ Len(generations) < MaxGenerations
    /\ generations' = generation_create(generations, refiner[w].new_prompt,
                                        refiner[w].feedback_list, TRUE)
    /\ refiner' = [refiner EXCEPT ![w].pc = "link",
                                  ![w].new_gen_id = Len(generations')]
    /\ UNCHANGED <<feedback, audit>>
    /\ RefUnchanged

\* feedback_repo.link_to_generation(feedback_ids, new_gen_id);
\* return generation_repo.get_by_id(new_gen_id)
RefLink(w) ==
    /\ refiner[w].pc = "link"
    /\ feedback' = link_to_generation(feedback, refiner[w].feedback_list,
                                      refiner[w].new_gen_id)
    /\ refiner' = [refiner EXCEPT ![w].pc = "sleep",
                                  ![w].outcome = "generation",
                                  ![w].returned = refiner[w].new_gen_id]
    /\ audit' = EndOfRun(audit, "generation", refiner[w].fb_seen)
    /\ UNCHANGED generations
    /\ RefUnchanged

\* a persistence error (sqlite3.Error) in create or link_to_generation, or
\* the process stopping there: the exception leaves the run
RefPersistError(w) ==
    /\ refiner[w].pc \in {"create", "link"}
    /\ refiner' = [refiner EXCEPT ![w].pc = "sleep", ![w].outcome = "raised"]
    /\ audit' = EndOfRun(audit, "raised", refiner[w].fb_seen)
    /\ UNCHANGED <<generations, feedback>>
    /\ RefUnchanged

\* await asyncio.sleep(settings.refinement_interval_seconds): Settings has
\* no such field, the attribute access raises AttributeError outside the
\* try block and the worker task ends; the next run is the next start
WorkerSleep(w) ==
    /\ refiner[w].pc = "sleep"
    /\ refiner' = [refiner EXCEPT ![w] =
           [DeadWorker EXCEPT !.starts = refiner[w].starts]]
    /\ UNCHANGED <<generations, feedback, audit>>
    /\ RefUnchanged

NextGen ==
    \/ Tick
    \/ CreateFeedback
    \/ \E w \in Workers : WorkerStart(w)
    \/ \E w \in Workers : RefGather(w)
    \/ \E w \in Workers : RefLoadActive(w)
    \/ \E w \in Workers : RefJudge(w)
    \/ \E w \in Workers : RefCreate(w)
    \/ \E w \in Workers : RefLink(w)
    \/ \E w \in Workers : RefPersistError(w)
    \/ \E w \in Workers : WorkerSleep(w)

\* the store is empty, or holds the default generation seeded by
\* get_active_generation
InitRefine ==
    /\ generations \in {<<>>, generation_create(<<>>, DEFAULT_PROMPT, {}, TRUE)}
    /\ articles = [a \in ArticleIds |-> NewArticle(DEFAULT_ELO_RATING, NULL)]
    /\ InitProcesses

SpecGen == InitRefine /\ [][NextGen]_vars

(***************************************************************************)
(* One scoring run (score_article_with_elo), one step per repository call  *)
(* or judge call.  The fields start_elo and b_persisted of a run, and run, *)
(* b_persisted and active_gen (the generation active when the row was      *)
(* inserted) of a comparison row, are history kept for the properties; the *)
(* program does not read them.                                             *)
(***************************************************************************)
EloUnchanged == UNCHANGED <<feedback, now, refiner, audit, selection>>

\* id of an article that does not exist
MissingId == NumArticles + 1

\* judge calls a run has made so far, and all runs together
RunCalls(run) ==
    IF run.pc \in {"update_a", "update_b", "record", "raised"} THEN run.i
    ELSE IF run.i = 0 THEN 0 ELSE run.i - 1

RECURSIVE CallsUpTo(_)
CallsUpTo(n) == IF n = 0 THEN 0 ELSE RunCalls(scorer[n]) + CallsUpTo(n - 1)

JudgeCalls == CallsUpTo(NumScorers)

\* article = article_repo.get_by_id(article_id); None returns
\* (0, ["Article ... not found"])
ScoreStart(s) ==
    /\ scorer[s].pc = "idle"
    /\ \E article_id \in ArticleIds \cup {MissingId} :
          scorer' = [scorer EXCEPT ![s] =
              IF article_id \in DOMAIN articles
              THEN [@ EXCEPT !.pc = "get_active",
                             !.article_id = article_id,
                             !.elo_rating = row_elo_rating(articles[article_id]),
                             !.start_elo = row_elo_rating(articles[article_id])]
              ELSE [@ EXCEPT !.pc = "done",
                             !.article_id = article_id,
                             !.errors = <<"not_found">>]]
    /\ UNCHANGED <<articles, comparisons, generations>>
    /\ EloUnchanged

\* get_active_generation: generation = repo.get_active()
ScoreGetActive(s) ==
    /\ scorer[s].pc = "get_active"
    /\ LET g == get_active(generations)
       IN scorer' = [scorer EXCEPT
              ![s].pc = IF g = NULL THEN "seed" ELSE "select",
              ![s].generation_id = g]
    /\ UNCHANGED <<articles, comparisons, generations>>
    /\ EloUnchanged

\* get_active_generation: repo.create(DEFAULT_PROMPT, None, 0, set_active=True)
ScoreSeed(s) ==
    /\ scorer[s].pc = "seed"
    /\ Len(generations) < MaxGenerations
    /\ generations' = generation_create(generations, DEFAULT_PROMPT, {}, TRUE)
    /\ scorer' = [scorer EXCEPT ![s].pc = "select",
                                ![s].generation_id = Len(generations')]
    /\ UNCHANGED <<articles, comparisons>>
    /\ EloUnchanged

\* opponents = select_opponents(...); an empty list returns (0, [])
ScoreSelect(s) ==
    /\ scorer[s].pc = "select"
    /\ \E opponents \in select_opponents(articles, scorer[s].article_id,
                                         scorer[s].generation_id,
                                         COMPARISONS_FOR_CONFIDENCE) :
          scorer' = [scorer EXCEPT
              ![s].opponents = opponents,
              ![s].i = 1,
              ![s].pc = IF opponents = <<>> THEN "done" ELSE "compare"]
    /\ UNCHANGED <<articles, comparisons, generations>>
    /\ EloUnchanged

\* position after the loop body for opponent i
NextOpponent(run) ==
    [run EXCEPT !.i = @ + 1,
                !.pc = IF run.i < Len(run.opponents) THEN "compare" ELSE "done"]

\* comparison_result = await compare_articles(...) returned: the Elo update
\* is computed from the run's article object and the opponent row
ScoreCompare(s) ==
    /\ scorer[s].pc = "compare"
    /\ JudgeCalls < MaxJudgeCalls
    /\ \E r \in CompareResponses :
          LET run == scorer[s]
              opponent == run.opponents[run.i]
              outcome == compare_articles(r)
          IN /\ outcome # "ComparisonError"
             /\ scorer' = [scorer EXCEPT
                    ![s].pc = "update_a",
                    ![s].b_persisted = row_elo_rating(articles[opponent.id]),
                    ![s].upd = create_elo_update(
                                   run.article_id, opponent.id,
                                   or_default(run.elo_rating),
                                   or_default(opponent.elo_rating),
                                   outcome, DEFAULT_K_FACTOR)]
    /\ UNCHANGED <<articles, comparisons, generations>>
    /\ EloUnchanged

\* a handler that leaves the loop instead of continuing it
on_comparison_error_break(run) ==
    [run EXCEPT !.errors = Append(@, "comparison_failed"),
                !.i = @ + 1, !.pc = "done"]

\* a call without timeout whose error never arrives: the run keeps waiting
on_comparison_error_wait(run) == [run EXCEPT !.pc = "waiting"]

\* a handler that continues without recording the error
on_comparison_error_silent(run) == NextOpponent(run)

\* except ComparisonError: errors.append(error_msg); continue
on_comparison_error(run) ==
    NextOpponent([run EXCEPT !.errors = Append(@, "comparison_failed")])

\* compare_articles raised ComparisonError
ScoreCompareError(s) ==
    /\ scorer[s].pc = "compare"
    /\ JudgeCalls < MaxJudgeCalls
    /\ \E r \in CompareResponses :
          /\ compare_articles(r) = "ComparisonError"
          /\ scorer' = [scorer EXCEPT ![s] = on_comparison_error(@)]
    /\ UNCHANGED <<articles, comparisons, generations>>
    /\ EloUnchanged

\* article_repo.update_elo(article_id, elo_update.article_a_elo_after)
ScoreUpdateA(s) ==
    /\ scorer[s].pc = "update_a"
    /\ articles' = update_elo(articles, scorer[s].upd.article_a_id,
                              scorer[s].upd.article_a_elo_after)
    /\ scorer' = [scorer EXCEPT ![s].pc = "update_b"]
    /\ UNCHANGED <<comparisons, generations>>
    /\ EloUnchanged

\* a loop body that goes on to the record without writing the opponent
ScoreUpdateB_deferred(s) ==
    /\ scorer[s].pc = "update_b"
    /\ scorer' = [scorer EXCEPT ![s].pc = "record"]
    /\ UNCHANGED <<articles, comparisons, generations>>
    /\ EloUnchanged

\* article_repo.update_elo(opponent.id, elo_update.article_b_elo_after)
ScoreUpdateB(s) ==
    /\ scorer[s].pc = "update_b"
    /\ articles' = update_elo(articles, scorer[s].upd.article_b_id,
                              scorer[s].upd.article_b_elo_after)
    /\ scorer' = [scorer EXCEPT ![s].pc = "record"]
    /\ UNCHANGED <<comparisons, generations>>
    /\ EloUnchanged

\* the row EloComparisonRepository.create inserts for the run's update
comparison_row(run, s) ==
    [article_a_id |-> run.upd.article_a_id,
     article_b_id |-> run.upd.article_b_id,
     winner_id |-> IF run.upd.outcome = "a_wins" THEN run.upd.article_a_id
                   ELSE IF run.upd.outcome = "b_wins"
                        THEN run.upd.article_b_id ELSE NULL,
     article_a_elo_before |-> run.upd.article_a_elo_before,
     article_a_elo_after |-> run.upd.article_a_elo_after,
     article_b_elo_before |-> run.upd.article_b_elo_before,
     article_b_elo_after |-> run.upd.article_b_elo_after,
     k_factor |-> run.upd.k_factor,
     generation_id |-> run.generation_id,
     run |-> s,
     b_persisted |-> run.b_persisted,
     active_gen |-> get_active(generations)]

\* a loop that keeps the article object as read at the start of the run
carry_forward_snapshot(run) == [run EXCEPT !.upd = NoUpdate, !.b_persisted = 0]

\* the run's article object after a recorded comparison; elo_update goes out
\* of scope at the end of the loop body
carry_forward(run) ==
    [run EXCEPT !.elo_rating = run.upd.article_a_elo_after,
                !.upd = NoUpdate, !.b_persisted = 0]

\* elo_repo.create(elo_comparison); article.elo_rating = ...;
\* comparisons_completed += 1
ScoreRecord(s) ==
    /\ scorer[s].pc = "record"
    /\ comparisons' = Append(comparisons, comparison_row(scorer[s], s))
    /\ scorer' = [scorer EXCEPT ![s] =
           NextOpponent([carry_forward(@) EXCEPT
                            !.comparisons_completed = @ + 1])]
    /\ UNCHANGED <<articles, generations>>
    /\ EloUnchanged

\* a persistence error (sqlite3.Error) in update_elo or in
\* EloComparisonRepository.create is no ComparisonError: it leaves the run
ScorePersistError(s) ==
    /\ scorer[s].pc \in {"update_a", "update_b", "record"}
    /\ scorer' = [scorer EXCEPT ![s].pc = "raised", ![s].upd = NoUpdate,
                                ![s].b_persisted = 0]
    /\ UNCHANGED <<articles, comparisons, generations>>
    /\ EloUnchanged

NextElo ==
    \/ \E s \in Scorers : ScoreStart(s)
    \/ \E s \in Scorers : ScoreGetActive(s)
    \/ \E s \in Scorers : ScoreSeed(s)
    \/ \E s \in Scorers : ScoreSelect(s)
    \/ \E s \in Scorers : ScoreCompare(s)
    \/ \E s \in Scorers : ScoreCompareError(s)
    \/ \E s \in Scorers : ScoreUpdateA(s)
    \/ \E s \in Scorers : ScoreUpdateB(s)
    \/ \E s \in Scorers : ScoreRecord(s)
    \/ \E s \in Scorers : ScorePersistError(s)

\* articles ingested and possibly scored under the seeded default generation
InitElo ==
    /\ \/ /\ generations = <<>>
          /\ articles \in [ArticleIds ->
                 {NewArticle(r, NULL) : r \in {NULL, DEFAULT_ELO_RATING}}]
       \/ /\ generations = generation_create(<<>>, DEFAULT_PROMPT, {}, TRUE)
          /\ articles \in [ArticleIds ->
                 {NewArticle(r, g) : r \in {NULL, DEFAULT_ELO_RATING},
                                     g \in {NULL, 1}}]
    /\ InitProcesses

SpecElo == InitElo /\ [][NextElo]_vars

(***************************************************************************)
(* The generation store under every writer it has: direct creates, one     *)
(* refinement worker, and scoring runs up to the end of                    *)
(* get_active_generation (the default seeding).                            *)
(***************************************************************************)
NextStore ==
    \/ CreateFeedback
    \/ DirectCreate
    \/ WorkerStart(1)
    \/ RefGather(1)
    \/ RefLoadActive(1)
    \/ RefJudge(1)
    \/ RefCreate(1)
    \/ RefLink(1)
    \/ RefPersistError(1)
    \/ WorkerSleep(1)
    \/ \E s \in Scorers : ScoreStart(s)
    \/ \E s \in Scorers : ScoreGetActive(s)
    \/ \E s \in Scorers : ScoreSeed(s)

SpecStore == InitGen /\ [][NextStore]_vars

(***************************************************************************)
(* The article table under ArticleRepository.update_elo alone, called any  *)
(* number of times per article with any of a few ratings.                  *)
(***************************************************************************)
RatingsWritten ==
    {DEFAULT_ELO_RATING - 16 * Scale, DEFAULT_ELO_RATING,
     DEFAULT_ELO_RATING + 16 * Scale}

UpdateElo ==
    /\ \E article_id \in ArticleIds, elo_rating \in RatingsWritten :
          /\ articles[article_id].elo_comparisons < MaxComparisons
          /\ articles' = update_elo(articles, article_id, elo_rating)
    /\ UNCHANGED <<comparisons, generations, scorer>>
    /\ EloUnchanged

SpecConf == InitElo /\ [][UpdateElo]_vars

(***************************************************************************)
(* One scoring run next to one refinement worker: the refinement run       *)
(* activates a new generation while the scoring run is in progress.        *)
(***************************************************************************)
NextMixed ==
    \/ CreateFeedback
    \/ WorkerStart(1)
    \/ RefGather(1)
    \/ RefLoadActive(1)
    \/ RefJudge(1)
    \/ RefCreate(1)
    \/ RefLink(1)
    \/ RefPersistError(1)
    \/ WorkerSleep(1)
    \/ ScoreStart(1)
    \/ ScoreGetActive(1)
    \/ ScoreSeed(1)
    \/ ScoreSelect(1)
    \/ ScoreCompare(1)
    \/ ScoreCompareError(1)
    \/ ScoreUpdateA(1)
    \/ ScoreUpdateB(1)
    \/ ScoreRecord(1)
    \/ ScorePersistError(1)

SpecMixed == InitElo /\ [][NextMixed]_vars

\* the steps of a started scoring run and of a started refinement run; every
\* one is a judge call or a database call, which returns or raises within
\* its timeout, so a started run is not suspended forever
ScoreRun(s) ==
    \/ ScoreGetActive(s)
    \/ ScoreSeed(s)
    \/ ScoreSelect(s)
    \/ ScoreCompare(s)
    \/ ScoreCompareError(s)
    \/ ScoreUpdateA(s)
    \/ ScoreUpdateB(s)
    \/ ScoreRecord(s)
    \/ ScorePersistError(s)

RefRun(w) ==
    \/ RefGather(w)
    \/ RefLoadActive(w)
    \/ RefJudge(w)
    \/ RefCreate(w)
    \/ RefLink(w)
    \/ RefPersistError(w)

SpecLive ==
    InitElo /\ [][NextMixed]_vars /\ WF_vars(ScoreRun(1)) /\ WF_vars(RefRun(1))

(***************************************************************************)
(* select_opponents as a function of its inputs: any table of up to        *)
(* SelectArticles articles, rated or not, of generation 1, 2 or none; any  *)
(* excluded id; generation_id None, 1 or 2; any count up to MaxCount.      *)
(* selection holds the last call and the list it returned.                 *)
(***************************************************************************)
InitSelect ==
    /\ articles \in [1..SelectArticles ->
           {NewArticle(r, g) : r \in {NULL, DEFAULT_ELO_RATING},
                               g \in {NULL, 1, 2}}]
    /\ generations = <<>>
    /\ InitProcesses

SelectOpponents ==
    /\ \E exclude_id \in DOMAIN articles, generation_id \in {NULL, 1, 2},
          count \in 1..MaxCount :
          \E result \in select_opponents(articles, exclude_id,
                                          generation_id, count) :
              selection' = [exclude_id |-> exclude_id,
                            generation_id |-> generation_id,
                            count |-> count, result |-> result]
    /\ UNCHANGED <<articles, comparisons, generations, feedback, now, scorer,
                   refiner, audit>>

SpecSelect == InitSelect /\ [][SelectOpponents]_vars

(***************************************************************************)
(* The pure functions as functions of their inputs.  selection holds the   *)
(* last call: the function, its arguments and what it returned or raised.  *)
(***************************************************************************)
RatingInputs == {0, 1484 * Scale, 1500 * Scale, 1516 * Scale, 124802 * Scale}
KFactors == {0, 16, DEFAULT_K_FACTOR}
MaxRatings == 3
RatingLists == UNION {[1..n -> RatingInputs] : n \in 0..MaxRatings}

\* the stores play no part: the functions read their arguments only
InitPure ==
    /\ articles = [a \in ArticleIds |-> NewArticle(NULL, NULL)]
    /\ generations = <<>>
    /\ InitProcesses

CompareArticles ==
    /\ \E r \in CompareResponses :
          selection' = [fn |-> "compare_articles", response |-> r,
                        result |-> compare_articles(r)]
    /\ UNCHANGED <<articles, comparisons, generations, feedback, now, scorer,
                   refiner, audit>>

CalculatePercentile ==
    /\ \E rating \in RatingInputs, all_ratings \in RatingLists :
          selection' = [fn |-> "calculate_percentile", rating |-> rating,
                        all_ratings |-> all_ratings,
                        result |-> calculate_percentile(rating, all_ratings)]
    /\ UNCHANGED <<articles, comparisons, generations, feedback, now, scorer,
                   refiner, audit>>

CalculateEloUpdate ==
    /\ \E rating_a \in RatingInputs, rating_b \in RatingInputs,
          outcome \in Outcomes, k_factor \in KFactors :
          selection' = [fn |-> "calculate_elo_update", rating_a |-> rating_a,
                        rating_b |-> rating_b, outcome |-> outcome,
                        k_factor |-> k_factor,
                        result |-> calculate_elo_update(rating_a, rating_b,
                                                        outcome, k_factor)]
    /\ UNCHANGED <<articles, comparisons, generations, feedback, now, scorer,
                   refiner, audit>>

NextPure == CompareArticles \/ CalculatePercentile \/ CalculateEloUpdate

SpecPure == InitPure /\ [][NextPure]_vars

(***************************************************************************)
(*                              PROPERTIES                                 *)
(***************************************************************************)
Last(seq) == seq[Len(seq)]
NumActive == Cardinality(ActiveIds(generations))

\* C1: a step that inserts a generation with set_active=True leaves exactly
\* one active generation, the one just inserted, whatever the store held.
C1_CreateActiveLeavesOneActive ==
    [][(Len(generations') = Len(generations) + 1 /\ Last(generations').created_active)
          => ActiveIds(generations') = {Len(generations')}]_vars

\* C1 witness: a refinement run has just replaced an active generation.
C1_Witness ==
    /\ refiner[1].pc = "link"
    /\ refiner[1].current_gen # NULL
    /\ ~generations[refiner[1].current_gen].is_active
    /\ ActiveIds(generations) = {refiner[1].new_gen_id}

\* C2 as stated: whenever a generation exists, exactly one is active.
C2_ExactlyOneActive == Len(generations) >= 1 => NumActive = 1

\* C2 amended: never more than one generation is active, and exactly one is
\* active once some generation has been created with set_active=True.
C2_OneActiveOnceActivated ==
    /\ NumActive <= 1
    /\ (\E g \in DOMAIN generations : generations[g].created_active)
          => NumActive = 1

\* C2 witness: two seedings raced (both read "no active generation") and a
\* third generation was created, one generation is active.
C2_Witness ==
    /\ Len(generations) = 3
    /\ generations[1].prompt_text = DEFAULT_PROMPT
    /\ generations[2].prompt_text = DEFAULT_PROMPT
    /\ NumActive = 1

\* comparison rows of run s before row n, and the run's rows in all
RowsOf(s, n) == {m \in 1..(n - 1) : comparisons[m].run = s}
MaxOf(S) == CHOOSE x \in S : \A y \in S : y <= x

\* the subject rating a run must feed into its next comparison: elo_after of
\* its latest recorded comparison, or the rating read at the start of the run
Accumulated(s, n) ==
    IF RowsOf(s, n) = {} THEN scorer[s].start_elo
    ELSE comparisons[MaxOf(RowsOf(s, n))].article_a_elo_after

\* C3: the step in which a run records a ComparisonError changes neither the
\* subject's nor the opponent's row, appends no comparison row, records one
\* message, and leaves the run at the next opponent (or finished normally
\* when there is none left).
C3_FailedComparisonSkipped ==
    [][\A s \in Scorers :
          (scorer[s].pc = "compare" /\ scorer'[s].errors # scorer[s].errors)
          => LET run == scorer[s]
                 opponent == run.opponents[run.i]
             IN /\ articles'[run.article_id] = articles[run.article_id]
                /\ articles'[opponent.id] = articles[opponent.id]
                /\ comparisons' = comparisons
                /\ Len(scorer'[s].errors) = Len(run.errors) + 1
                /\ scorer'[s].comparisons_completed = run.comparisons_completed
                /\ scorer'[s].i = run.i + 1
                /\ scorer'[s].pc = IF run.i < Len(run.opponents)
                                   THEN "compare" ELSE "done"]_vars

\* C3 witness: a run skipped its first opponent and is writing the result of
\* the comparison with its second.
C3_Witness ==
    \E s \in Scorers :
        /\ scorer[s].errors = <<"comparison_failed">>
        /\ scorer[s].pc = "update_a"
        /\ scorer[s].i = 2

\* C4: the subject rating of every comparison a run computes, recorded or in
\* flight, is elo_after of the run's previous recorded comparison, or the
\* rating read at the start of the run when there is none.
C4_SubjectRatingCarriesForward ==
    /\ \A n \in DOMAIN comparisons :
          comparisons[n].article_a_elo_before = Accumulated(comparisons[n].run, n)
    /\ \A s \in Scorers :
          scorer[s].pc \in {"update_a", "update_b", "record"}
          => scorer[s].upd.article_a_elo_before
                 = Accumulated(s, Len(comparisons) + 1)

\* C4 witness: a run recorded two comparisons and the second one started
\* from a rating other than the one read at the start of the run.
C4_Witness ==
    \E s \in Scorers :
        /\ scorer[s].comparisons_completed = 2
        /\ comparisons[MaxOf(RowsOf(s, Len(comparisons) + 1))].article_a_elo_before
               # scorer[s].start_elo

\* C5 as stated: the opponent rating used in a comparison is the opponent's
\* persisted elo_rating at the time the comparison was made.
C5_OpponentRatingIsPersisted ==
    \A n \in DOMAIN comparisons :
        comparisons[n].article_b_elo_before = comparisons[n].b_persisted

\* rating change the ledger records for article a in rows 1..n
RECURSIVE LedgerDelta(_, _)
LedgerDelta(a, n) ==
    IF n = 0 THEN 0
    ELSE LedgerDelta(a, n - 1)
         + (IF comparisons[n].article_a_id = a
            THEN comparisons[n].article_a_elo_after
                     - comparisons[n].article_a_elo_before
            ELSE 0)
         + (IF comparisons[n].article_b_id = a
            THEN comparisons[n].article_b_elo_after
                     - comparisons[n].article_b_elo_before
            ELSE 0)

NoRepeatedOpponent(s) ==
    \A i, j \in DOMAIN scorer[s].opponents :
        i # j => scorer[s].opponents[i].id # scorer[s].opponents[j].id

\* C6 as stated: when runs for different subjects, each with distinct
\* opponents, have all finished, every article's rating is its initial
\* rating plus the changes the ledger records for it.
C6_NoLostUpdate ==
    (/\ \A s \in Scorers : scorer[s].pc = "done" /\ NoRepeatedOpponent(s)
     /\ \A s, t \in Scorers : s # t => scorer[s].article_id # scorer[t].article_id)
    => \A a \in ArticleIds :
          row_elo_rating(articles[a])
              = DEFAULT_ELO_RATING + LedgerDelta(a, Len(comparisons))

Involving(a) ==
    {n \in DOMAIN comparisons :
        a \in {comparisons[n].article_a_id, comparisons[n].article_b_id}}

\* C7 as stated: an article's rating is the default and no comparison row
\* involves it, or it is the elo_after recorded for it in the latest row
\* involving it.
C7_RatingMatchesLedger ==
    \A a \in ArticleIds :
        IF Involving(a) = {}
        THEN row_elo_rating(articles[a]) = DEFAULT_ELO_RATING
        ELSE LET c == comparisons[MaxOf(Involving(a))]
             IN articles[a].elo_rating =
                    IF c.article_a_id = a THEN c.article_a_elo_after
                    ELSE c.article_b_elo_after

\* generations whose feedback_count counted feedback item f
CountedIn(gens, f) == {g \in DOMAIN gens : f \in gens[g].consumed}

\* C8 as stated: a feedback item's generation_id, once set, never changes,
\* and no item is counted in the feedback_count of two generations.
C8_ConsumedAtMostOnce ==
    [][/\ \A f \in DOMAIN feedback :
             feedback[f].generation_id # NULL
             => feedback'[f].generation_id = feedback[f].generation_id
       /\ \A f \in DOMAIN feedback' :
             Cardinality(CountedIn(generations', f)) <= 1]_vars

\* the judge call or the parsing of its answer failed
JudgeFailed(r) ==
    \/ r.transport # "ok"
    \/ ~r.has_json
    \/ ~r.valid_json
    \/ ~r.has_new_prompt

\* C9: when the judge call or the parsing of its response fails, the run
\* ends there returning nothing, and that step leaves the generations (so
\* also the active one) and every feedback item as they were.
C9_FailedRefinementChangesNothing ==
    [][\A w \in Workers :
          (/\ refiner[w].pc = "judge"
           /\ refiner'[w].pc # "judge"
           /\ JudgeFailed(refiner'[w].response))
          => /\ refiner'[w].pc = "sleep"
             /\ refiner'[w].returned = NULL
             /\ generations' = generations
             /\ feedback' = feedback]_vars

\* C9 witness: a run that gathered feedback under an active generation got
\* JSON without "new_prompt" from the judge and has ended; its generation is
\* still the active one and its feedback is still unconsumed.
C9_Witness ==
    \E w \in Workers :
        /\ refiner[w].pc = "sleep"
        /\ refiner[w].outcome = "refine_failed"
        /\ refiner[w].response.valid_json
        /\ ~refiner[w].response.has_new_prompt
        /\ refiner[w].feedback_list # {}
        /\ get_active(generations) = refiner[w].current_gen
        /\ \A f \in refiner[w].feedback_list : feedback[f].generation_id = NULL

\* C10 as stated: the feedback gathered by a run that failed is gathered
\* again by the run that starts one interval later, unless it was consumed
\* in between.
C10_FailedBatchGatheredAgain == audit.missed = {}

QueryTimes == (0 - WINDOW)..MaxTime

\* C12: an item that is linked to a generation is returned by
\* get_unprocessed_since for no "since", now or after any later step.
C12_LinkedNeverReturned ==
    [][\A f \in DOMAIN feedback :
          feedback[f].generation_id # NULL
          => \A t \in QueryTimes :
                /\ f \notin get_unprocessed_since(feedback, t)
                /\ f \notin get_unprocessed_since(feedback', t)]_vars

\* C12 witness: a run gathered a non-empty list that leaves out an item
\* which existed then, is linked and is still inside the window.
C12_Witness ==
    \E w \in Workers, f \in DOMAIN feedback :
        /\ refiner[w].pc = "load_active"
        /\ refiner[w].fb_seen >= f
        /\ feedback[f].generation_id # NULL
        /\ feedback[f].created_at >= now - WINDOW
        /\ f \notin refiner[w].feedback_list

\* C13: an article's elo_confidence is set exactly when its elo_comparisons
\* is at least 7.
C13_ConfidenceIffSevenComparisons ==
    \A a \in ArticleIds :
        articles[a].elo_confidence
            <=> articles[a].elo_comparisons >= COMPARISONS_FOR_CONFIDENCE

\* C13 witness: one article has been updated 6 times and is not confident,
\* another 7 times and is.
C13_Witness ==
    \E a, b \in ArticleIds :
        /\ articles[a].elo_comparisons = 6 /\ ~articles[a].elo_confidence
        /\ articles[b].elo_comparisons = 7 /\ articles[b].elo_confidence

\* C14: a run for an existing article writes no article row and no
\* comparison row before it has selected its opponents, and when no other
\* article is eligible the selection ends the run with (0, []) and writes
\* nothing.
C14_NoOpponentsNoChange ==
    [][\A s \in Scorers :
          /\ (scorer[s].pc \in {"idle", "get_active", "seed", "select"}
               /\ scorer'[s] # scorer[s])
             => articles' = articles /\ comparisons' = comparisons
          /\ (scorer[s].pc = "select" /\ scorer'[s].pc # "select"
               /\ Eligible(articles, scorer[s].article_id) = {})
             => /\ scorer'[s].pc = "done"
                /\ scorer'[s].comparisons_completed = 0
                /\ scorer'[s].errors = <<>>]_vars

\* C14 witness: a run for an existing article has ended at the selection
\* with an empty opponent list.
C14_Witness ==
    \E s \in Scorers :
        /\ scorer[s].pc = "done"
        /\ scorer[s].article_id \in ArticleIds
        /\ scorer[s].i = 1
        /\ scorer[s].opponents = <<>>
        /\ scorer[s].comparisons_completed = 0
        /\ scorer[s].errors = <<>>

\* what a returned run reports against what it did: the count is the number
\* of rows it appended, every error is a failed comparison, count and errors
\* add up to the opponents selected, and the count is at most 7
ReportMatchesRun(s) ==
    /\ scorer[s].comparisons_completed
           = Cardinality(RowsOf(s, Len(comparisons) + 1))
    /\ \A n \in DOMAIN scorer[s].errors :
           scorer[s].errors[n] = "comparison_failed"
    /\ scorer[s].comparisons_completed + Len(scorer[s].errors)
           = Len(scorer[s].opponents)
    /\ scorer[s].comparisons_completed <= COMPARISONS_FOR_CONFIDENCE

\* C15 as stated: every call that returns reports the rows it appended and
\* one error per failed opponent, adding up to the opponents selected.
C15_ReportMatchesRun ==
    \A s \in Scorers : scorer[s].pc = "done" => ReportMatchesRun(s)

\* C15 amended: that holds for every call for an existing article; a call
\* for a missing article returns (0, [not found]) with no opponent selected.
C15_ReportMatchesRunOfExistingArticle ==
    \A s \in Scorers :
        scorer[s].pc = "done"
        => IF scorer[s].article_id \in ArticleIds
           THEN ReportMatchesRun(s)
           ELSE /\ scorer[s].comparisons_completed = 0
                /\ scorer[s].errors = <<"not_found">>
                /\ scorer[s].opponents = <<>>
                /\ RowsOf(s, Len(comparisons) + 1) = {}

\* C15 witness: a call returned (1, [one error]) after two opponents.
C15_Witness ==
    \E s \in Scorers :
        /\ scorer[s].pc = "done"
        /\ scorer[s].comparisons_completed = 1
        /\ Len(scorer[s].errors) = 1
        /\ Len(scorer[s].opponents) = 2

\* the article row of a got one more comparison and the rating r
Written(a, r) ==
    /\ articles'[a].elo_rating = r
    /\ articles'[a].elo_comparisons = articles[a].elo_comparisons + 1

\* C16: a run works on one opponent at a time.  While it is at opponent i,
\* the i - 1 opponents before are each recorded or skipped; it writes the
\* subject, then the opponent, then the record, and it moves to the next
\* opponent only with the record appended or the opponent skipped.
C16_OneOpponentAtATime ==
    [][\A s \in Scorers :
          LET run == scorer[s]
              next == scorer'[s]
          IN /\ run.pc \in {"compare", "update_a", "update_b", "record"}
                => /\ run.i \in DOMAIN run.opponents
                   /\ Cardinality(RowsOf(s, Len(comparisons) + 1))
                          + Len(run.errors) = run.i - 1
             /\ (run.pc = "update_a" /\ next.pc = "update_b")
                => Written(run.article_id, run.upd.article_a_elo_after)
             /\ (run.pc = "update_b" /\ next.pc = "record")
                => Written(run.opponents[run.i].id, run.upd.article_b_elo_after)
             /\ (next.pc = "record") => run.pc \in {"update_b", "record"}
             /\ (next.pc = "update_b") => run.pc \in {"update_a", "update_b"}
             /\ (next.i = run.i + 1 /\ run.i >= 1)
                => \/ /\ run.pc = "record"
                      /\ Len(comparisons') = Len(comparisons) + 1
                      /\ Last(comparisons').run = s
                      /\ Last(comparisons').article_b_id = run.opponents[run.i].id
                   \/ /\ run.pc = "compare"
                      /\ Len(next.errors) = Len(run.errors) + 1
                      /\ comparisons' = comparisons]_vars

\* C16 witness: a run is waiting for the judge on its second opponent with
\* the first one written and recorded.
C16_Witness ==
    \E s \in Scorers :
        /\ scorer[s].pc = "compare"
        /\ scorer[s].i = 2
        /\ \E n \in DOMAIN comparisons :
              /\ comparisons[n].run = s
              /\ comparisons[n].article_b_id = scorer[s].opponents[1].id
              /\ articles[comparisons[n].article_b_id].elo_comparisons >= 1
              /\ articles[scorer[s].article_id].elo_comparisons >= 1

\* C17 as stated: the list select_opponents returns names no article twice
\* and holds at most count entries.
C17_SelectedWithoutReplacement ==
    /\ \A i, j \in DOMAIN selection.result :
          i # j => selection.result[i].id # selection.result[j].id
    /\ Len(selection.result) <= selection.count

\* eligible articles of the generation the last call preferred (none when
\* it was called without a generation)
CurrentEligible ==
    IF selection.generation_id = NULL THEN {}
    ELSE {a \in Eligible(articles, selection.exclude_id) :
             articles[a].generation_id = selection.generation_id}

SelectedIds == {selection.result[n].id : n \in DOMAIN selection.result}

\* C18: the returned list holds an article of another generation only when
\* fewer than count eligible articles of the preferred generation exist, and
\* then it holds every one of those.
C18_CurrentGenerationPreferred ==
    selection.count > 0
    => /\ (\E a \in SelectedIds : a \notin CurrentEligible)
          => Cardinality(CurrentEligible) < selection.count
       /\ Cardinality(CurrentEligible) < selection.count
          => CurrentEligible \subseteq SelectedIds

\* C18 witness: an eligible article of another generation was left out
\* because the preferred generation had enough articles.
C18_Witness ==
    /\ selection.count > 0
    /\ Cardinality(CurrentEligible) >= selection.count
    /\ SelectedIds \subseteq CurrentEligible
    /\ \E a \in Eligible(articles, selection.exclude_id) :
          a \notin CurrentEligible

\* what the caller of run_daily_refinement gets from an ended run: the
\* returned value (a generation id or None), or an exception
CallerSees(run) ==
    IF run.outcome = "raised"
    THEN [kind |-> "raised", value |-> NULL]
    ELSE [kind |-> "returned", value |-> run.returned]

\* the result of a run that found no feedback
NoWorkResult == [kind |-> "returned", value |-> NULL]

\* C19 as stated: a run that gathered feedback and found no active
\* generation ends with a result the caller can tell from "no work".
C19_NoActiveIsAnError ==
    \A w \in Workers :
        (refiner[w].pc = "sleep" /\ refiner[w].outcome = "no_active")
        => CallerSees(refiner[w]) # NoWorkResult

\* C20 as stated: the generation_id of every comparison row is the
\* generation that was active when the row was written.
C20_RecordedUnderActiveGeneration ==
    \A n \in DOMAIN comparisons :
        comparisons[n].generation_id = comparisons[n].active_gen

\* C21 as stated: a step of a scoring run leaves the generations and the
\* feedback items as they are.
C21_ScoringReadsGenerationsOnly ==
    [][(\E s \in Scorers : scorer'[s] # scorer[s])
          => generations' = generations /\ feedback' = feedback]_vars

\* C22: a scoring run makes at most one judge call per selected opponent;
\* a started scoring run ends (it returns, or a persistence error leaves
\* it) and a started refinement run ends, whatever the judge answers.
C22_RunsTerminate ==
    /\ [](RunCalls(scorer[1]) <= Len(scorer[1].opponents))
    /\ (scorer[1].pc \notin {"idle", "done", "raised"})
           ~> (scorer[1].pc \in {"done", "raised"})
    /\ (refiner[1].pc \notin {"dead", "sleep"}) ~> (refiner[1].pc = "sleep")

\* C22 witness: a scoring run returned after the judge failed for both its
\* opponents, and a refinement run ended after its judge call failed.
C22_Witness ==
    /\ scorer[1].pc = "done"
    /\ Len(scorer[1].errors) = 2
    /\ refiner[1].pc = "sleep"
    /\ refiner[1].outcome \in {"refine_failed", "raised"}
    /\ refiner[1].response.transport # "ok"

\* C23 as stated: a worker whose run has ended waits and then starts the
\* next run; it does not stop.
C23_WorkerRunsAgain ==
    [][\A w \in Workers :
          refiner[w].pc = "sleep" => refiner'[w].pc \in {"sleep", "gather"}]_vars

Called(fn) == "fn" \in DOMAIN selection /\ selection.fn = fn

\* C24 as stated: compare_articles returns one of the three outcomes or
\* raises ComparisonError, and JSON that parses without a valid outcome
\* gives a tie.
C24_InvalidOutcomeIsTie ==
    Called("compare_articles") =>
        /\ selection.result \in Outcomes \cup {"ComparisonError"}
        /\ (selection.response.valid_json
               /\ selection.response.outcome \notin Outcomes)
              => selection.result = "tie"

\* C24: compare_articles returns one of the three outcomes or raises
\* ComparisonError and nothing else; it raises exactly when the call failed,
\* the text holds no JSON object, the JSON is invalid or the rationale is no
\* string; otherwise a missing or unknown outcome gives a tie and a known
\* outcome is returned as it is.
C24_OutcomeOrComparisonError ==
    Called("compare_articles") =>
        LET r == selection.response
            fails == \/ r.transport # "ok"
                     \/ ~r.has_json
                     \/ ~r.valid_json
                     \/ r.reasoning = "invalid"
        IN /\ selection.result \in Outcomes \cup {"ComparisonError"}
           /\ fails <=> selection.result = "ComparisonError"
           /\ (~fails /\ r.outcome \notin Outcomes) => selection.result = "tie"
           /\ (~fails /\ r.outcome \in Outcomes) => selection.result = r.outcome

C24_Witness ==
    /\ Called("compare_articles")
    /\ selection.response.valid_json
    /\ selection.response.outcome = "other"
    /\ selection.response.reasoning = "invalid"
    /\ selection.result = "ComparisonError"

\* the rating is the single lowest of N >= 1 distinct ratings
SingleLowest(rating, all_ratings) ==
    /\ Len(all_ratings) >= 1
    /\ \A i, j \in DOMAIN all_ratings :
           all_ratings[i] = all_ratings[j] => i = j
    /\ \E i \in DOMAIN all_ratings :
           /\ all_ratings[i] = rating
           /\ \A j \in DOMAIN all_ratings : j # i => all_ratings[j] > rating

\* C25 as stated: the percentile of the single lowest of N distinct ratings
\* is 0.
C25_LowestIsZero ==
    (Called("calculate_percentile")
       /\ SingleLowest(selection.rating, selection.all_ratings))
      => selection.result = 0

\* C25: the percentile of the single lowest of N distinct ratings is 50/N,
\* which is above 0.
C25_LowestIsHalfARank ==
    (Called("calculate_percentile")
       /\ SingleLowest(selection.rating, selection.all_ratings))
      => /\ selection.result = (50 * Scale) \div Len(selection.all_ratings)
         /\ selection.result > 0

C25_Witness ==
    /\ Called("calculate_percentile")
    /\ SingleLowest(selection.rating, selection.all_ratings)
    /\ Len(selection.all_ratings) = MaxRatings
    /\ selection.result = (50 * Scale) \div MaxRatings

\* C26 as stated: calculate_elo_update with A_WINS returns a pair in which
\* A's rating has not fallen and B's has not risen.
C26_WinnerGainsLoserLoses ==
    (Called("calculate_elo_update") /\ selection.outcome = "a_wins")
      => /\ Len(selection.result) = 2
         /\ selection.result[1] >= selection.rating_a
         /\ selection.result[2] <= selection.rating_b

\* C27 as stated, in the states no run is in the middle of: every article's
\* elo_comparisons is the number of comparison rows it appears in.
C27_CounterMatchesLedger ==
    (\A s \in Scorers : scorer[s].pc \in {"idle", "done", "raised"})
      => \A a \in ArticleIds :
            articles[a].elo_comparisons = Cardinality(Involving(a))

\* sum of the ratings of articles 1..n as _row_to_article reads them
RECURSIVE SumOfRatings(_, _)
SumOfRatings(arts, n) ==
    IF n = 0 THEN 0 ELSE SumOfRatings(arts, n - 1) + row_elo_rating(arts[n])

\* C28 as stated: when every scoring run has returned, the ratings add up to
\* what they added up to before the runs.
C28_ZeroSum ==
    (\A s \in Scorers : scorer[s].pc \in {"idle", "done"})
      => SumOfRatings(articles, NumArticles) = NumArticles * DEFAULT_ELO_RATING

\* C29: every step of seeding and refinement keeps the generations already
\* there, with their ids and prompt texts, adds new ones only after them, and
\* leaves the generation with the greatest id as the one active generation.
C29_NewestGenerationIsActive ==
    [][/\ Len(generations') >= Len(generations)
       /\ \A g \in DOMAIN generations :
              generations'[g].prompt_text = generations[g].prompt_text
       /\ Len(generations') >= 1
              => ActiveIds(generations') = {Len(generations')}]_vars

C29_Witness ==
    /\ Len(generations) >= 2
    /\ generations[1].prompt_text = DEFAULT_PROMPT
    /\ generations[Len(generations)].prompt_text \in Prompts
    /\ refiner[1].new_gen_id = Len(generations)
    /\ scorer[1].generation_id = 1
    /\ ActiveIds(generations) = {Len(generations)}

\* feedback items created after run w gathered its batch
CreatedSinceGather(w) == {f \in DOMAIN feedback : f > refiner[w].fb_seen}

\* C30: the step in which a run links its batch leaves every item created
\* since the run gathered as it was and outside the new generation, whose
\* feedback_count did not count it and is the number of items now linked
\* to that generation.
C30_LateFeedbackNotLinked ==
    [][\A w \in Workers :
          (refiner[w].pc = "link" /\ refiner'[w].outcome = "generation")
            => LET g == refiner[w].new_gen_id
               IN /\ \A f \in CreatedSinceGather(w) :
                         /\ feedback'[f].generation_id = feedback[f].generation_id
                         /\ feedback'[f].generation_id # g
                         /\ f \notin generations'[g].consumed
                  /\ generations'[g].feedback_count =
                         Cardinality({f \in DOMAIN feedback' :
                                         feedback'[f].generation_id = g})]_vars

C30_Witness ==
    /\ refiner[1].pc = "link"
    /\ CreatedSinceGather(1) # {}
    /\ \A f \in CreatedSinceGather(1) : feedback[f].generation_id = NULL
    /\ generations[refiner[1].new_gen_id].feedback_count
           = Cardinality(refiner[1].feedback_list)

====
